---- MODULE Spec2Model ----
(***************************************************************************)
(* Model of the task scheduling and execution subsystem of src/server.js   *)
(* (the second program of the file, lines 169-432): the /add-task,         *)
(* /update-task and /delete-task handlers, the node-cron jobs registered   *)
(* by /add-task and their asynchronous fire callbacks, over the Task and   *)
(* Log collections.                                                        *)
(*                                                                         *)
(* Time is a counter of scheduler ticks.  A calendar year has YearLen     *)
(* ticks; a calendar moment (second minute hour day month, the year is    *)
(* not part of it) of an instant t in a timezone of offset o is           *)
(* (t + o) % YearLen.                                                     *)
(***************************************************************************)
EXTENDS Integers, Sequences, FiniteSets, TLC

\* ---------------------------------------------------------------- bounds
YearLen == 2        \* ticks per calendar year
MaxTime == 3        \* the clock stops advancing here
MaxTasks == 2       \* task documents ever created
MaxOps == 2         \* add, update and delete requests served, and restarts (Spec)
MaxFires == 2       \* fire callbacks started
RaceTime == 1       \* where the clock stops when one more request is served

\* the offset of the timezone option given to cron.schedule, in ticks
ISTOffset == 1

UserIds == {"u1", "u2"}
TaskNames == {"n1", "n2"}
TaskIds == 1..MaxTasks

\* offsets the process's own timezone (TZ of the host) can have
LocalOffsets == {0, ISTOffset}

NaN == -1
Instants == 0..MaxTime

\* request bodies' executionDate: a date string that parses, or one that does not
ExecutionDates == {<<"iso", t>> : t \in Instants} \cup {<<"bad">>}

VARIABLES
  limit,        \* what a run is bounded by: requests served, last instant
  now,          \* the clock: the current instant
  localOffset,  \* timezone offset of the process (what Date's getters use)
  tasks,        \* Task collection: _id -> [taskName, nextExecution, userId]
  logs,         \* Log collection, in insertion order
  crons,        \* node-cron's registry of scheduled jobs (process memory)
  running,      \* fire callbacks in flight (process memory)
  reqs,         \* update/delete handlers suspended at their second await
  nextId,       \* next Task _id
  nOps,         \* requests served and restarts so far (bounded)
  meta,         \* history: per task id, what its callers asked for
  fires,        \* history: fire callbacks started
  sends,        \* history: sendMail calls made by fire callbacks
  written,      \* history: Success/Failure entries saved by fire callbacks
  escaped       \* history: fire callbacks that ended by rejecting

vars == <<limit, now, localOffset, tasks, logs, crons, running, reqs, nextId,
          nOps, meta, fires, sends, written, escaped>>

\* ------------------------------------------------------------ pure parts

\* new Date(executionDate): the instant, or an Invalid Date
ParseDate(executionDate) ==
  IF executionDate[1] = "iso" THEN executionDate[2] ELSE NaN

\* a validation that lets every date through
IsNaN_Never(d) == FALSE

\* isNaN(parsedDate)
IsNaN(d) == d = NaN

\* the text of executionDate, as the template literal of the Updated entry prints it
DateText(executionDate) ==
  IF executionDate[1] = "iso" THEN ToString(executionDate[2]) ELSE "bad"

\* The cron expression built from parsedDate's getSeconds() getMinutes() getHours()
\* getDate() getMonth()+1 and a '*' day of week: the calendar moment of the
\* instant in the process's timezone; the year is dropped.
CronExpression(parsedDate, offset) == (parsedDate + offset) % YearLen

\* node-cron with { timezone: 'Asia/Kolkata' }: the job matches at every instant
\* whose calendar moment in that timezone equals the expression.
CronMatches(expression, t) == (t + ISTOffset) % YearLen = expression

\* new Log({...})
NewLog(taskName, executionTime, status, message, userId, tid) ==
  [taskName |-> taskName, executionTime |-> executionTime, status |-> status,
   message |-> message, userId |-> userId, tid |-> tid]

\* a delete keyed by the task name alone
DeleteMany_ByName(ls, taskName, userId) ==
  SelectSeq(ls, LAMBDA l : l.taskName # taskName)

\* a delete that leaves the logs alone
DeleteMany_None(ls, taskName, userId) == ls

\* Log.deleteMany({ taskName, userId })
DeleteMany(ls, taskName, userId) ==
  SelectSeq(ls, LAMBDA l : ~(l.taskName = taskName /\ l.userId = userId))

\* Log.find({ userId }) of /task-history (as a set; the sort is by executionTime)
TaskHistory(userId) == {logs[i] : i \in {j \in DOMAIN logs : logs[j].userId = userId}}

\* Task.find({ userId }) of /tasks
Tasks(userId) == {i \in DOMAIN tasks : tasks[i].userId = userId}

\* ------------------------------------------------------------------ Init
Start ==
  /\ now = 0
  /\ localOffset \in LocalOffsets
  /\ tasks = << >>
  /\ logs = << >>
  /\ crons = {}
  /\ running = {}
  /\ reqs = {}
  /\ nextId = 1
  /\ nOps = 0
  /\ meta = << >>
  /\ fires = {}
  /\ sends = {}
  /\ written = {}
  /\ escaped = {}

\* runs of up to MaxOps requests, up to instant MaxTime
Init == Start /\ limit = [ops |-> MaxOps, time |-> MaxTime]

\* runs of one more request, up to instant RaceTime
InitRace == Start /\ limit = [ops |-> MaxOps + 1, time |-> RaceTime]

\* --------------------------------------------------------------- add-task

\* POST /add-task with an executionDate that does not parse: 400, nothing done
AddTaskInvalid ==
  \E executionDate \in ExecutionDates :
    /\ IsNaN(ParseDate(executionDate))
    /\ UNCHANGED vars

\* the job /add-task registers: the expression and what the callback's closure holds
CronJob(id, parsedDate, taskName, userId) ==
  [id |-> id, expression |-> CronExpression(parsedDate, localOffset),
   taskName |-> taskName, userId |-> userId]

\* Users are interchangeable, and so are task names: the first task is taken to
\* be the first user's, under the first name.
FirstUsers == IF nextId = 1 THEN {"u1"} ELSE UserIds
FirstNames == IF nextId = 1 THEN {"n1"} ELSE TaskNames

\* POST /add-task: task.save() then cron.schedule(...)
AddTask ==
  \E user \in FirstUsers, taskName \in FirstNames, executionDate \in ExecutionDates :
    LET parsedDate == ParseDate(executionDate) IN
    /\ ~IsNaN(parsedDate)
    /\ parsedDate <= limit.time
    /\ nextId <= MaxTasks
    /\ nOps < limit.ops
    /\ nOps' = nOps + 1
    /\ tasks' = tasks @@ (nextId :> [taskName |-> taskName,
                                      nextExecution |-> parsedDate,
                                      userId |-> user])
    /\ crons' = crons \cup {CronJob(nextId, parsedDate, taskName, user)}
    /\ meta' = meta @@ (nextId :> [target |-> parsedDate,
                                    future |-> parsedDate > now,
                                    past |-> parsedDate < now,
                                    updated |-> "no", deleted |-> "no",
                                    owner |-> user])
    /\ nextId' = nextId + 1
    /\ UNCHANGED <<limit, now, localOffset, logs, running, reqs,
                   fires, sends, written, escaped>>

\* ------------------------------------------------------------ the clock

\* the callback of a job, started at instant t
Callback(job, t) ==
  [id |-> job.id, at |-> t, taskName |-> job.taskName, userId |-> job.userId,
   pc |-> "findById", error |-> "", cause |-> ""]

\* One tick of the clock: node-cron starts the callback of every job whose
\* expression matches the new instant.  The clock stops at the run's last
\* instant, and before a tick that would start more than MaxFires callbacks.
Tick ==
  /\ now < limit.time
  /\ now' = now + 1
  /\ LET due == {j \in crons : CronMatches(j.expression, now + 1)} IN
     /\ Cardinality(fires) + Cardinality(due) <= MaxFires
     /\ running' = running \cup {Callback(j, now + 1) : j \in due}
     /\ fires' = fires \cup {[id |-> j.id, at |-> now + 1,
                               gone |-> j.id \notin DOMAIN tasks] : j \in due}
  /\ UNCHANGED <<limit, localOffset, tasks, logs, crons, reqs, nextId, nOps,
                 meta, sends, written, escaped>>

\* ------------------------------------------------- the fire callback

\* what transporter.sendMail can reject with
SendMailErrors == {"ECONNREFUSED"}

\* sendEmail: resolves when sendMail resolves; whatever sendMail rejects with,
\* it throws new Error('Failed to send email')
SendEmailError(outcome) ==
  IF outcome = "ok" THEN "" ELSE "Failed to send email"

\* the message of the error a rejected log.save() throws
SaveError == "log save failed"

Step(f, g) == running' = (running \ {f}) \cup {g}
Finish(f) == running' = running \ {f}

\* the entry a fire writes
FireLog(f, status, message) ==
  NewLog(f.taskName, now, status, message, f.userId, f.id)

Wrote(f, status, message) ==
  [id |-> f.id, at |-> f.at, status |-> status, message |-> message,
   cause |-> f.cause]

\* const user = await User.findById(task.userId); if (!user) throw ...
FindById ==
  \E f \in running, found \in BOOLEAN :
    /\ f.pc = "findById"
    /\ IF found
         THEN Step(f, [f EXCEPT !.pc = "sendEmail"])
         ELSE Step(f, [f EXCEPT !.pc = "catch", !.error = "User not found",
                                !.cause = "User not found"])
    /\ UNCHANGED <<limit, now, localOffset, tasks, logs, crons, reqs, nextId, nOps,
                   meta, fires, sends, written, escaped>>

\* await sendEmail(taskName, user.email)
SendEmail ==
  \E f \in running, outcome \in {"ok"} \cup SendMailErrors :
    /\ f.pc = "sendEmail"
    /\ sends' = sends \cup {[id |-> f.id, at |-> f.at,
                             early |-> /\ f.id \in DOMAIN tasks
                                       /\ now < tasks[f.id].nextExecution]}
    /\ IF outcome = "ok"
         THEN Step(f, [f EXCEPT !.pc = "saveSuccess"])
         ELSE Step(f, [f EXCEPT !.pc = "catch", !.error = SendEmailError(outcome),
                                !.cause = outcome])
    /\ UNCHANGED <<limit, now, localOffset, tasks, logs, crons, reqs, nextId, nOps,
                   meta, fires, written, escaped>>

\* the try block's log: new Log({... status: 'Success' ...}); await log.save()
SaveSuccess ==
  \E f \in running, saved \in BOOLEAN :
    /\ f.pc = "saveSuccess"
    /\ IF saved
         THEN /\ logs' = Append(logs, FireLog(f, "Success", "Email sent successfully"))
              /\ written' = written \cup {Wrote(f, "Success", "Email sent successfully")}
              /\ Finish(f)
         ELSE /\ Step(f, [f EXCEPT !.pc = "catch", !.error = SaveError,
                                   !.cause = SaveError])
              /\ UNCHANGED <<logs, written>>
    /\ UNCHANGED <<limit, now, localOffset, tasks, crons, reqs, nextId, nOps,
                   meta, fires, sends, escaped>>

\* the catch block: new Log({... status: 'Failure', message: error.message ...});
\* await log.save(); a rejected save rejects the callback
SaveFailure ==
  \E f \in running, saved \in BOOLEAN :
    /\ f.pc = "catch"
    /\ Finish(f)
    /\ IF saved
         THEN /\ logs' = Append(logs, FireLog(f, "Failure", f.error))
              /\ written' = written \cup {Wrote(f, "Failure", f.error)}
              /\ UNCHANGED escaped
         ELSE /\ escaped' = escaped \cup {[id |-> f.id, at |-> f.at]}
              /\ UNCHANGED <<logs, written>>
    /\ UNCHANGED <<limit, now, localOffset, tasks, crons, reqs, nextId, nOps,
                   meta, fires, sends>>

\* ------------------------------------------------------------ update-task

\* a lookup by _id alone
FindOne_AnyUser(id, user) == id \in DOMAIN tasks

\* Task.findOne...({ _id: id, userId: req.user.id })
FindOne(id, user) == id \in DOMAIN tasks /\ tasks[id].userId = user

\* PUT /update-task/:id with an executionDate that does not parse: the update's
\* nextExecution is an Invalid Date, findOneAndUpdate rejects casting it
UpdateTaskInvalid ==
  \E executionDate \in ExecutionDates :
    /\ IsNaN(ParseDate(executionDate))
    /\ UNCHANGED vars

\* PUT /update-task/:id, no such task of the requester: 404
UpdateTaskNotFound ==
  \E user \in UserIds, id \in TaskIds :
    /\ ~FindOne(id, user)
    /\ UNCHANGED vars

\* PUT /update-task/:id up to its first await: Task.findOneAndUpdate
UpdateTask ==
  \E user \in UserIds, id \in TaskIds, taskName \in TaskNames,
     executionDate \in ExecutionDates :
    LET nextExecution == ParseDate(executionDate) IN
    /\ ~IsNaN(nextExecution)
    /\ nextExecution <= limit.time
    /\ FindOne(id, user)
    /\ nOps < limit.ops
    /\ nOps' = nOps + 1
    /\ tasks' = [tasks EXCEPT ![id] = [taskName |-> taskName,
                                       nextExecution |-> nextExecution,
                                       userId |-> @.userId]]
    /\ reqs' = reqs \cup {[kind |-> "update", n |-> nOps, id |-> id,
                           user |-> user, taskName |-> taskName,
                           message |-> "Task updated to execute at "
                                         \o DateText(executionDate)]}
    /\ meta' = [meta EXCEPT ![id].updated =
                         IF /\ ~\E e \in fires : e.id = id
                            /\ nextExecution > now
                            /\ nextExecution # tasks[id].nextExecution
                           THEN "moved" ELSE "other"]
    /\ UNCHANGED <<limit, now, localOffset, logs, crons, running, nextId,
                   fires, sends, written, escaped>>

\* the rest of /update-task: new Log({... status: 'Updated' ...}); await log.save()
UpdateLog ==
  \E r \in reqs, saved \in BOOLEAN :
    /\ r.kind = "update"
    /\ reqs' = reqs \ {r}
    /\ logs' = IF saved
                 THEN Append(logs, NewLog(r.taskName, now, "Updated", r.message,
                                          r.user, r.id))
                 ELSE logs
    /\ UNCHANGED <<limit, now, localOffset, tasks, crons, running, nextId, nOps,
                   meta, fires, sends, written, escaped>>

\* ------------------------------------------------------------ delete-task

\* DELETE /delete-task/:id, no such task of the requester: 404
DeleteTaskNotFound ==
  \E user \in UserIds, id \in TaskIds :
    /\ ~FindOne(id, user)
    /\ UNCHANGED vars

\* a delete that also drops the task's callbacks in flight
DeleteTask_Abort ==
  \E user \in UserIds, id \in TaskIds :
    /\ FindOne(id, user)
    /\ nOps < limit.ops
    /\ nOps' = nOps + 1
    /\ tasks' = [i \in DOMAIN tasks \ {id} |-> tasks[i]]
    /\ running' = {f \in running : f.id # id}
    /\ reqs' = reqs \cup {[kind |-> "delete", n |-> 0, id |-> id, user |-> user,
                           taskName |-> tasks[id].taskName, message |-> ""]}
    /\ meta' = [meta EXCEPT ![id].deleted =
                         IF now < tasks[id].nextExecution THEN "early" ELSE "late"]
    /\ UNCHANGED <<limit, now, localOffset, logs, crons, nextId,
                   fires, sends, written, escaped>>

\* DELETE /delete-task/:id up to its first await: Task.findOneAndDelete
DeleteTask ==
  \E user \in UserIds, id \in TaskIds :
    /\ FindOne(id, user)
    /\ nOps < limit.ops
    /\ nOps' = nOps + 1
    /\ tasks' = [i \in DOMAIN tasks \ {id} |-> tasks[i]]
    /\ reqs' = reqs \cup {[kind |-> "delete", n |-> 0, id |-> id, user |-> user,
                           taskName |-> tasks[id].taskName, message |-> ""]}
    /\ meta' = [meta EXCEPT ![id].deleted =
                         IF now < tasks[id].nextExecution THEN "early" ELSE "late"]
    /\ UNCHANGED <<limit, now, localOffset, logs, crons, running, nextId,
                   fires, sends, written, escaped>>

\* the rest of /delete-task: Log.deleteMany({ taskName: task.taskName, userId })
DeleteLogs ==
  \E r \in reqs :
    /\ r.kind = "delete"
    /\ reqs' = reqs \ {r}
    /\ logs' = DeleteMany(logs, r.taskName, r.user)
    /\ UNCHANGED <<limit, now, localOffset, tasks, crons, running, nextId, nOps,
                   meta, fires, sends, written, escaped>>

\* ---------------------------------------------------------------- restart

\* The process stops and starts again: the module is evaluated anew, so the
\* cron registry is empty and every callback and handler in flight is gone;
\* the collections stay.  Startup connects and listens and registers no job.
Restart ==
  /\ nOps < limit.ops
  /\ nOps' = nOps + 1
  /\ crons' = {}
  /\ running' = {}
  /\ reqs' = {}
  /\ UNCHANGED <<limit, now, localOffset, tasks, logs, nextId, meta, fires,
                 sends, written, escaped>>

\* ------------------------------------------------------------------- Spec
Next ==
  \/ AddTaskInvalid
  \/ AddTask
  \/ Tick
  \/ FindById
  \/ SendEmail
  \/ SaveSuccess
  \/ SaveFailure
  \/ UpdateTaskInvalid
  \/ UpdateTaskNotFound
  \/ UpdateTask
  \/ UpdateLog
  \/ DeleteTaskNotFound
  \/ DeleteTask
  \/ DeleteLogs
  \/ Restart

Spec == Init /\ [][Next]_vars

SpecRace == InitRace /\ [][Next]_vars

\* --------------------------------------------------------------- claims

FiresOf(id) == {e \in fires : e.id = id}
SendsOf(id) == {e \in sends : e.id = id}
WrittenOf(id) == {w \in written : w.id = id}

\* the task has a job in node-cron's registry
Armed(id) == \E j \in crons : j.id = id

\* no callback of the task is in flight
Idle(id) == ~\E f \in running : f.id = id

\* added with a future target, never updated or deleted, process never restarted
Untouched(id) ==
  /\ id \in DOMAIN tasks
  /\ meta[id].future
  /\ meta[id].updated = "no"
  /\ Armed(id)

\* C1: a task added with a valid future target instant and never updated or
\* deleted fires at its persisted nextExecution and at no other instant, has
\* fired exactly once when the clock has reached that instant, and that fire
\* has produced exactly one Success or Failure entry once it is over.
C1_FiresOnceAtTarget ==
  \A id \in DOMAIN meta :
    Untouched(id) =>
      /\ \A e \in FiresOf(id) : e.at = tasks[id].nextExecution
      /\ now >= tasks[id].nextExecution => Cardinality(FiresOf(id)) = 1
      /\ (now >= tasks[id].nextExecution /\ Idle(id)) =>
           Cardinality(WrittenOf(id)) = 1

\* C2: when update-task moves a task's target instant before the task has
\* fired, no fire starts and no entry is written at the original instant, and
\* once the clock has reached the new instant the task has fired there and
\* exactly one entry has been written for it.
C2_UpdateCancelsOriginal ==
  \A id \in DOMAIN meta :
    (/\ id \in DOMAIN tasks
     /\ meta[id].future
     /\ meta[id].updated = "moved"
     /\ Armed(id)) =>
      /\ \A e \in FiresOf(id) : e.at # meta[id].target
      /\ \A w \in WrittenOf(id) : w.at # meta[id].target
      /\ (now >= tasks[id].nextExecution /\ Idle(id)) =>
           /\ Cardinality(WrittenOf(id)) = 1
           /\ \A w \in WrittenOf(id) : w.at = tasks[id].nextExecution

\* C3: after delete-task has succeeded for a task before its target instant, no
\* fire of that task starts, so no notification is sent and no entry written
\* by one, and once the delete is over the log holds no entry of that task.
C3_DeleteRemovesTrigger ==
  \A id \in DOMAIN meta :
    meta[id].deleted = "early" =>
      /\ \A e \in FiresOf(id) : ~e.gone
      /\ (~\E r \in reqs : r.kind = "delete" /\ r.id = id) =>
           \A i \in DOMAIN logs : logs[i].tid # id

\* C4: firing is single-shot: no task has more than one fire, more than one
\* notification or more than one Success/Failure entry (the program has no
\* operation that arms a task's trigger again).
C4_SingleShot ==
  \A id \in DOMAIN meta :
    /\ Cardinality(FiresOf(id)) <= 1
    /\ Cardinality(SendsOf(id)) <= 1
    /\ Cardinality(WrittenOf(id)) <= 1

\* the instant a live job fires next
Deadline(j) ==
  LET later == {t \in (now + 1)..(now + YearLen) : CronMatches(j.expression, t)}
  IN CHOOSE t \in later : \A u \in later : t <= u

\* C5: in every reachable state there is at most one live trigger per task id,
\* and a live trigger belongs to a task present in the TaskStore whose stored
\* nextExecution is the trigger's deadline.
C5_TriggerMatchesStore ==
  /\ \A j, k \in crons : j.id = k.id => j = k
  /\ \A j \in crons :
       /\ j.id \in DOMAIN tasks
       /\ tasks[j.id].nextExecution > now =>
            Deadline(j) = tasks[j.id].nextExecution

\* C6: a task never fires before its target instant: every notification is
\* sent, and every Success/Failure entry of a task still stored and never
\* updated is stamped, at a clock value >= the task's persisted nextExecution.
C6_NeverEarly ==
  /\ \A e \in sends : ~e.early
  /\ \A i \in DOMAIN logs :
       LET l == logs[i] IN
       (/\ l.status \in {"Success", "Failure"}
        /\ l.tid \in DOMAIN tasks
        /\ meta[l.tid].updated = "no")
         => l.executionTime >= tasks[l.tid].nextExecution

\* armed with a target instant that was already in the past, and not fired yet
PastDue(id) ==
  /\ id \in DOMAIN tasks
  /\ meta[id].past
  /\ meta[id].updated = "no"
  /\ Armed(id)
  /\ FiresOf(id) = {}

\* C7: a task armed with a target instant already in the past fires at the next
\* scheduling tick: every tick of the clock starts the fire of each such task.
C7_PastFiresPromptly ==
  [][now' = now + 1 =>
       \A id \in DOMAIN meta : PastDue(id) => \E e \in fires' : e.id = id]_vars

\* C8: every task still persisted and not yet fired has a trigger, in every
\* state and so after a restart too (startup is part of the restart).
C8_RestartRearms ==
  \A id \in DOMAIN tasks : FiresOf(id) = {} => Armed(id)

\* C9: a fire whose send fails writes a Failure entry whose message is the
\* message of the error sendEmail threw, and the task is not retried: no fire,
\* send or entry of the task follows that fire.
C9_SendFailureLogged ==
  \A w \in written :
    w.cause \in SendMailErrors =>
      /\ w.status = "Failure"
      /\ w.message = SendEmailError(w.cause)
      /\ \A e \in FiresOf(w.id) \cup SendsOf(w.id) \cup WrittenOf(w.id) :
           e.at <= w.at

\* C10: a fire that cannot resolve the task's user never invokes the sender,
\* writes a Failure entry and no Success entry, and is not retried: no fire,
\* send or entry of the task follows that fire.
C10_UserNotFound ==
  /\ \A f \in running :
       f.cause = "User not found" => ~\E e \in sends : e.id = f.id /\ e.at = f.at
  /\ \A w \in written :
       w.cause = "User not found" =>
         /\ w.status = "Failure"
         /\ ~\E e \in sends : e.id = w.id /\ e.at = w.at
         /\ \A e \in FiresOf(w.id) \cup SendsOf(w.id) \cup WrittenOf(w.id) :
              e.at <= w.at

\* two tasks of one owner with one target instant, both left alone
Twins(a, b) ==
  /\ a # b
  /\ Untouched(a)
  /\ Untouched(b)
  /\ meta[a].owner = meta[b].owner
  /\ tasks[a].nextExecution = tasks[b].nextExecution

\* C11: two tasks with distinct ids, the same owner and the same target instant
\* each fire once, at that instant, and each produce their own entry; while one
\* has fired and the other has not, the other is still armed.
C11_TwinsFireOnce ==
  \A a, b \in DOMAIN meta :
    Twins(a, b) =>
      /\ \A e \in FiresOf(a) : e.at = tasks[a].nextExecution
      /\ now >= tasks[a].nextExecution => Cardinality(FiresOf(a)) = 1
      /\ (now >= tasks[a].nextExecution /\ Idle(a)) =>
           Cardinality(WrittenOf(a)) = 1
      /\ (FiresOf(a) # {} /\ FiresOf(b) = {}) => Armed(b)

\* C12: an add-task request whose executionDate does not parse persists
\* nothing: every step that stores a task stores a valid instant and leaves the
\* logs alone, and a job is only registered together with such a task.
C12_InvalidDateRejected ==
  [][LET newTasks == DOMAIN tasks' \ DOMAIN tasks
         newJobs == crons' \ crons
     IN /\ \A id \in newTasks : tasks'[id].nextExecution # NaN
        /\ \A j \in newJobs : j.id \in newTasks
        /\ newTasks # {} => logs' = logs]_vars

\* a task is stored and armed, and a request with an unparsable date is served
C12_Witness ==
  /\ \E id \in DOMAIN tasks : Armed(id)
  /\ ENABLED AddTaskInvalid

\* C13: update-task for an id that is not stored, or that is stored for another
\* user, changes nothing: a step takes up an update only for a stored task of
\* the requester (and then touches neither the jobs nor the logs), a stored
\* task is modified only by such a step, and every 'Updated' entry appended
\* carries the owner of the task it names.
C13_UpdateNotFound ==
  [][/\ \A r \in reqs' \ reqs :
          r.kind = "update" =>
            /\ r.id \in DOMAIN tasks
            /\ tasks[r.id].userId = r.user
            /\ crons' = crons
            /\ logs' = logs
     /\ \A id \in DOMAIN tasks \cap DOMAIN tasks' :
          tasks'[id] # tasks[id] =>
            \E r \in reqs' \ reqs :
              r.kind = "update" /\ r.id = id /\ r.user = tasks[id].userId
     /\ Len(logs') = Len(logs) + 1 =>
          LET l == logs'[Len(logs')] IN
          l.status = "Updated" => l.userId = meta[l.tid].owner]_vars

\* an armed task of one user is stored, one id is not stored at all, and an
\* update request for either by the other user is answered not-found
C13_Witness ==
  /\ \E id \in DOMAIN tasks, user \in UserIds :
       Armed(id) /\ tasks[id].userId # user /\ ~FindOne(id, user)
  /\ \E id \in TaskIds : id \notin DOMAIN tasks
  /\ ENABLED UpdateTaskNotFound

\* C14: the step that completes a delete-task leaves no entry with the deleted
\* task's stored name and the requester's id, and the task is gone; when that
\* task is the only one ever created, was never updated, has fired and has no
\* fire in flight, the requester's history is empty after that step.  A task
\* leaves the store only through a delete-task of its owner for its id, and
\* entries leave the log only when such a delete completes.
C14_DeleteCascade ==
  [][/\ \A r \in reqs \ reqs' :
          (r.kind = "delete" /\ nOps' = nOps) =>
            /\ r.id \notin DOMAIN tasks'
            /\ \A i \in DOMAIN logs' :
                 ~(logs'[i].taskName = r.taskName /\ logs'[i].userId = r.user)
            /\ (/\ DOMAIN meta = {r.id}
                /\ meta[r.id].updated = "no"
                /\ WrittenOf(r.id) # {}
                /\ Idle(r.id)) => TaskHistory(r.user)' = {}
     /\ \A id \in DOMAIN tasks \ DOMAIN tasks' :
          \E r \in reqs' \ reqs :
            /\ r.kind = "delete"
            /\ r.id = id
            /\ r.user = tasks[id].userId
            /\ r.taskName = tasks[id].taskName
     /\ (\E i \in DOMAIN logs : i > Len(logs') \/ logs'[i] # logs[i]) =>
          \E r \in reqs \ reqs' : r.kind = "delete" /\ nOps' = nOps]_vars

\* the only task ever created has fired and written its entry, was then
\* deleted, the delete is over and its owner's history is empty
C14_Witness ==
  \E id \in DOMAIN meta :
    /\ DOMAIN meta = {id}
    /\ meta[id].deleted # "no"
    /\ WrittenOf(id) # {}
    /\ ~\E r \in reqs : r.kind = "delete"
    /\ TaskHistory(meta[id].owner) = {}

\* the process stops and starts again in this step
Restarted == nOps' # nOps /\ reqs' = {} /\ tasks' = tasks

\* C15: deleting a task does not abort a fire of it that has started: while the
\* process runs, a callback in flight leaves its place only by moving on to its
\* next statement or by ending, and it ends by appending its own entry to the
\* log (or with its log write rejected by the store); every callback in flight
\* can take its next step whether or not its task is still stored.
C15_DeleteKeepsInFlight ==
  [][/\ \A f \in running \ running' :
          \/ Restarted
          \/ \E g \in running' \ running : g.id = f.id /\ g.at = f.at
          \/ /\ \E w \in written' \ written : w.id = f.id /\ w.at = f.at
             /\ Len(logs') = Len(logs) + 1
             /\ logs'[Len(logs')].tid = f.id
             /\ logs'[Len(logs')].taskName = f.taskName
             /\ logs'[Len(logs')].userId = f.userId
          \/ [id |-> f.id, at |-> f.at] \in escaped' \ escaped
     /\ running # {} => ENABLED (FindById \/ SendEmail \/ SaveSuccess \/ SaveFailure)
    ]_vars

\* a fire started while its task was stored, the task was deleted and the
\* cascade ran, and the fire's entry is in the log all the same
C15_Witness ==
  \E w \in written, e \in fires :
    /\ e.id = w.id
    /\ e.at = w.at
    /\ ~e.gone
    /\ Cardinality(FiresOf(w.id)) = 1
    /\ meta[w.id].deleted # "no"
    /\ meta[w.id].updated = "no"
    /\ ~\E r \in reqs : r.kind = "delete"
    /\ \E i \in DOMAIN logs : logs[i].tid = w.id

\* C16: no error raised during a fire escapes the fire callback: whatever
\* fails, the user lookup, the send or the log write of either branch, the
\* callback completes normally.
C16_NothingEscapes == escaped = {}

\* C17: a fire ends with a Success entry exactly when its user was found and
\* its send succeeded, and with a Failure entry exactly when one of those two
\* failed; no fire whose notification went out ends with Failure, and no fire
\* writes both entries.
C17_OutcomeByCause ==
  /\ \A w \in written :
       /\ w.status = "Failure" => w.cause \in {"User not found"} \cup SendMailErrors
       /\ w.status = "Success" => w.cause = ""
  /\ \A w, x \in written : (w.id = x.id /\ w.at = x.at) => w.status = x.status

\* C18: an update-task and a delete-task of one task id are linearized: once
\* both are over and the deletion succeeded, the log holds no 'Updated' entry
\* of that task, as after either sequential order of the two requests.
C18_UpdateDeleteLinearized ==
  \A id \in DOMAIN meta :
    (/\ meta[id].deleted # "no"
     /\ ~\E r \in reqs : r.id = id) =>
      \A i \in DOMAIN logs : ~(logs[i].tid = id /\ logs[i].status = "Updated")

\* C19: the step that completes a delete-task removes from the log exactly the
\* entries the deleted task produced, under whatever name, and leaves every
\* other task's entries in place.
C19_CascadeExact ==
  [][\A r \in reqs \ reqs' :
       (r.kind = "delete" /\ nOps' = nOps) =>
         logs' = SelectSeq(logs, LAMBDA l : l.tid # r.id)]_vars

\* the entries of one user, in log order
EntriesOf(ls, user) == SelectSeq(ls, LAMBDA l : l.userId = user)

\* C20: users are isolated.  Every stored task and every log entry, a fire's
\* entry included, carries the id of the user who created the task it belongs
\* to, and the tasks and task-history queries of a user return that user's
\* items only; a request is taken up only for a task of the requester, a stored
\* task changes or leaves the store only through such a request, and a user's
\* log entries change only when a request of that user completes or a fire of
\* one of that user's tasks writes its entry.
C20_UserIsolation ==
  /\ [](/\ \A id \in DOMAIN tasks : tasks[id].userId = meta[id].owner
        /\ \A i \in DOMAIN logs : logs[i].userId = meta[logs[i].tid].owner
        /\ \A u \in UserIds :
             /\ \A id \in Tasks(u) : meta[id].owner = u
             /\ \A l \in TaskHistory(u) : meta[l.tid].owner = u)
  /\ [][/\ \A r \in reqs' \ reqs : r.user = meta[r.id].owner
        /\ \A id \in DOMAIN tasks :
             (id \notin DOMAIN tasks' \/ tasks'[id] # tasks[id]) =>
               \E r \in reqs' \ reqs : r.id = id /\ r.user = meta[id].owner
        /\ \A v \in UserIds :
             EntriesOf(logs', v) # EntriesOf(logs, v) =>
               \/ \E r \in reqs \ reqs' : r.user = v
               \/ \E f \in running \ running' : meta[f.id].owner = v]_vars

\* a task of one user was deleted, the cascade is over, and an entry of another
\* user's task of the same name is still in the log
C20_Witness ==
  \E id \in DOMAIN meta, i \in DOMAIN logs, j \in crons :
    /\ meta[id].deleted # "no"
    /\ meta[id].updated = "no"
    /\ reqs = {}
    /\ j.id = id
    /\ logs[i].taskName = j.taskName
    /\ logs[i].userId # meta[id].owner

====
